---- MODULE Spec2Model ----
(***************************************************************************)
(* Model of pywps/inout/storage.py: the storage backends of PyWPS.         *)
(*                                                                         *)
(*   FileStorage.store   lines  84-115   (Local Disk backend)              *)
(*   get_free_space      lines 118-133   (Space Accountant)                *)
(*   FTPStorage.store    lines 148-180   (FTP backend)                     *)
(*                                                                         *)
(* Paths and file names are sequences of one-character strings, so that    *)
(* os.path.splitext / split / basename and tempfile.mkstemp are computed   *)
(* character by character.  URLs are a root plus the list of path          *)
(* segments that str.split('/') yields inside urljoin.                     *)
(***************************************************************************)
EXTENDS Integers, Sequences, FiniteSets, TLC

(* ------------------------------ bounds --------------------------------- *)
NumCalls == 2
MaxLen == 2
MaxFree == 4
MaxNameLen == 3

Calls == 1..NumCalls
Chars == {"a", ".", "/"}
BlockSizes == {1, 2}

(* n bytes of value b.  The artifact of call p holds bytes of value p, so
   that the contents of different calls' artifacts can be told apart. *)
Repeat(b, n) == [i \in 1..n |-> b]

SeqsUpTo(S, n) == UNION {[1..k -> S] : k \in 0..n}

(* --------------------------- class STORE_TYPE --------------------------- *)
PATH == 0
FTP == 1

(* ------------------------------ os.path --------------------------------- *)
(* str.rfind, 1-based, 0 when the character does not occur *)
rfind(p, c) ==
    LET I == {i \in 1..Len(p) : p[i] = c}
    IN  IF I = {} THEN 0 ELSE CHOOSE i \in I : \A j \in I : j <= i

(* os.path.splitext (genericpath._splitext): the extension starts at the
   last dot of the last component, leading dots of the component ignored *)
splitext(p) ==
    LET sepIndex == rfind(p, "/")
        dotIndex == rfind(p, ".")
    IN  IF /\ dotIndex > sepIndex
           /\ \E filenameIndex \in (sepIndex + 1)..(dotIndex - 1) :
                 p[filenameIndex] # "."
        THEN <<SubSeq(p, 1, dotIndex - 1), SubSeq(p, dotIndex, Len(p))>>
        ELSE <<p, <<>> >>

(* os.path.basename, and the tail that os.path.split returns *)
basename(p) == SubSeq(p, rfind(p, "/") + 1, Len(p))

(* os.path.join(a, b): an absolute b discards a *)
join(a, b) ==
    IF Len(b) > 0 /\ b[1] = "/" THEN b
    ELSE IF Len(a) = 0 \/ a[Len(a)] = "/" THEN a \o b
    ELSE a \o <<"/">> \o b


(* ------------------------- configuration values ------------------------ *)
(* config.get_config_value('server', 'outputpath'): the target directory *)
target == <<"/", "o">>

(* '%s%s' % (server url, server outputurl): the values output_url can take.
   path is what str.split('/') yields for the URL's path, so a trailing ""
   stands for a trailing slash.  The first is the docstring's value. *)
BaseUrls ==
    { [root |-> "http://foo", path |-> <<"", "bar", "filestorage">>],
      [root |-> "http://foo", path |-> <<"", "bar", "filestorage", "">>],
      [root |-> "http://foo", path |-> <<"", "out">>],
      [root |-> "http://foo", path |-> <<"", "out", "">>] }

DocUrl == [root |-> "http://foo", path |-> <<"", "bar", "filestorage">>]

(* output.output_format.get_extension(): the declared formats' extensions *)
DeclExts == { <<".", "t">>, <<".", "c">> }

(* output.file: a path that names a regular file *)
IsFilePath(n) ==
    /\ Len(n) > 0
    /\ n[Len(n)] # "/"
    /\ basename(n) \notin { <<".">>, <<".", ".">> }

AllNames == {n \in SeqsUpTo(Chars, MaxNameLen) : IsFilePath(n)}

(* concurrent calls all store an artifact of this name (the docstring's
   file.tiff), so that they compete for the same mkstemp names *)
SameNames == { <<"a", ".", "t">> }

(* self.ftp_host *)
ftp_host == [root |-> "", path |-> <<"ftp.example.org">>]

NoName == <<>>
NoResult == <<>>
NoOutput == [file |-> <<>>, data |-> <<>>, ext |-> <<>>]

(* ------------------------------- state ---------------------------------- *)
VARIABLES
    platform,         \* platform.system(): "Windows" or "Posix"
    f_frsize,         \* block size of the target directory's filesystem
    f_bfree,          \* its free blocks (os.statvfs(folder).f_bfree)
    st_blksize,       \* os.stat(output.file).st_blksize, the source's block size
    writable,         \* may files be created in the target directory
    output_url,       \* self.output_url
    files,            \* the target directory: path -> content
    pc,               \* per call: position in store
    output,           \* per call: the artifact (file, data, ext)
    actual_file_size, \* per call: local actual_file_size
    output_name,      \* per call: local output_name
    result,           \* per call: the returned tuple
    error,            \* per call: the exception raised
    ftp_login_ok,     \* does the FTP server accept the configured credentials
    ftplib_present,   \* can ftplib be imported
    remote            \* the FTP server's files: name -> content

vars == <<platform, f_frsize, f_bfree, st_blksize, writable, output_url, files,
          pc, output, actual_file_size, output_name, result, error,
          ftp_login_ok, ftplib_present, remote>>

envVars == <<platform, f_frsize, st_blksize, writable, output_url,
             ftp_login_ok, ftplib_present>>

(* --------------------------- Space Accountant --------------------------- *)
(* free bytes of the volume: what GetDiskFreeSpaceExW reports as
   lpTotalNumberOfFreeBytes *)
FreeBytes == f_bfree * f_frsize

(* get_free_space(folder), on a host where platform.system() is system *)
get_free_space(system) ==
    IF system = "Windows" THEN FreeBytes ELSE f_bfree

(* math.ceil(a / float(b)) *)
ceil_div(a, b) == (a + b - 1) \div b

(* line 94 *)
ActualFileSize(file_size, file_block_size) ==
    ceil_div(file_size, file_block_size) * file_block_size

NotEnoughInverted(avail, actual) == avail > actual

(* line 96 *)
NotEnough(avail, actual) == avail < actual

(* ---------------------------- Name Allocator ---------------------------- *)
SuffixDeclared(out) == out.ext

(* lines 99-101: the suffix handed to mkstemp *)
Suffix(out) ==
    LET suffix == splitext(out.file)[2]
    IN  IF suffix = <<>> THEN out.ext ELSE suffix

(* line 102: the prefix handed to mkstemp *)
Prefix(out) == basename(splitext(out.file)[1])

(* the random part of a mkstemp name; one per call is enough for mkstemp
   never to run out of candidates *)
Tokens == {<<ToString(i)>> : i \in Calls}

(* tempfile.mkstemp: the path it forms for one random token *)
TempPath(dir, prefix, tok, suffix) == join(dir, prefix \o tok \o suffix)

CanCreateUnchecked(path) == TRUE

(* tempfile.mkstemp opens with O_CREAT | O_EXCL: a candidate is taken only
   if no file of that name exists, atomically with its creation *)
CanCreate(path) == path \notin DOMAIN files

(* --------------------------------- URL ---------------------------------- *)
(* urljoin(base, rel) for a relative one-segment rel: the base path's last
   segment is dropped (it is "" when the base ends in a slash) *)
urljoin(base, rel) ==
    [root |-> base.root,
     path |-> SubSeq(base.path, 1, Len(base.path) - 1) \o <<rel>>]


(* ------------------------- FileStorage.store ---------------------------- *)
Artifacts(p, names, exts) ==
    { [file |-> n, data |-> Repeat(p, k), ext |-> e] :
        n \in names, k \in 0..MaxLen, e \in exts }

(* line 87: store(output) is entered *)
Call(p, names, exts) ==
    /\ pc[p] = "Idle"
    /\ \E out \in Artifacts(p, names, exts) : output' = [output EXCEPT ![p] = out]
    /\ pc' = [pc EXCEPT ![p] = "Admitting"]
    /\ UNCHANGED <<envVars, f_bfree, files, actual_file_size,
                   output_name, result, error, remote>>

(* lines 89-97: the capacity check *)
Admit(p) ==
    /\ pc[p] = "Admitting"
    /\ LET file_block_size == st_blksize
           avail == get_free_space(platform)
           file_size == Len(output[p].data)
           actual == ActualFileSize(file_size, file_block_size)
       IN  /\ actual_file_size' = [actual_file_size EXCEPT ![p] = actual]
           /\ IF NotEnough(avail, actual)
              THEN /\ pc' = [pc EXCEPT ![p] = "Failed"]
                   /\ error' = [error EXCEPT ![p] = "NotEnoughStorage"]
              ELSE /\ pc' = [pc EXCEPT ![p] = "Allocating"]
                   /\ UNCHANGED error
    /\ UNCHANGED <<envVars, f_bfree, files, output, output_name, result, remote>>

(* lines 99-104: tempfile.mkstemp creates an empty file under a new name, or
   raises OSError when no file can be created in the directory *)
Mkstemp(p, next) ==
    IF writable
    THEN \E tok \in Tokens :
            LET path == TempPath(target, Prefix(output[p]), tok, Suffix(output[p]))
            IN  /\ CanCreate(path)
                /\ files' = (path :> <<>>) @@ files
                /\ output_name' = [output_name EXCEPT ![p] = path]
                /\ pc' = [pc EXCEPT ![p] = next]
                /\ UNCHANGED error
    ELSE /\ pc' = [pc EXCEPT ![p] = "Failed"]
         /\ error' = [error EXCEPT ![p] = "OSError"]
         /\ UNCHANGED <<files, output_name>>

Allocate(p) ==
    /\ pc[p] = "Allocating"
    /\ Mkstemp(p, "Transmitting")
    /\ UNCHANGED <<envVars, f_bfree, output, actual_file_size,
                   result, remote>>

(* the blocks a file of n bytes occupies in the target directory *)
BlocksFor(n) == ceil_div(n, f_frsize)

(* the failure of the copy is swallowed *)
Copy2Swallowed(p, dst, next) ==
    LET data == output[p].data
    IN  /\ files' = [files EXCEPT ![dst] =
                        IF BlocksFor(Len(data)) <= f_bfree THEN data
                        ELSE SubSeq(data, 1, FreeBytes)]
        /\ f_bfree' = IF BlocksFor(Len(data)) <= f_bfree
                      THEN f_bfree - BlocksFor(Len(data)) ELSE 0
        /\ pc' = [pc EXCEPT ![p] = next]
        /\ UNCHANGED error

(* a failed copy is retried under a new name *)
Copy2Retried(p, dst, next) ==
    LET data == output[p].data
    IN  IF BlocksFor(Len(data)) <= f_bfree
        THEN /\ files' = [files EXCEPT ![dst] = data]
             /\ f_bfree' = f_bfree - BlocksFor(Len(data))
             /\ pc' = [pc EXCEPT ![p] = next]
             /\ UNCHANGED error
        ELSE /\ files' = [files EXCEPT ![dst] = SubSeq(data, 1, FreeBytes)]
             /\ f_bfree' = 0
             /\ pc' = [pc EXCEPT ![p] = "Admitting"]
             /\ UNCHANGED error

(* shutil.copy2(src, dst) into the file mkstemp created: all of the data
   when the volume has room for it; otherwise the bytes that fit are written
   and IOError (ENOSPC) is raised *)
Copy2(p, dst, next) ==
    LET data == output[p].data
    IN  IF BlocksFor(Len(data)) <= f_bfree
        THEN /\ files' = [files EXCEPT ![dst] = data]
             /\ f_bfree' = f_bfree - BlocksFor(Len(data))
             /\ pc' = [pc EXCEPT ![p] = next]
             /\ UNCHANGED error
        ELSE /\ files' = [files EXCEPT ![dst] = SubSeq(data, 1, FreeBytes)]
             /\ f_bfree' = 0
             /\ pc' = [pc EXCEPT ![p] = "Failed"]
             /\ error' = [error EXCEPT ![p] = "IOError"]

StoreResultRelative(name, base) ==
    <<PATH, basename(name), urljoin(base, basename(name))>>

(* lines 110-115: the tuple store returns *)
StoreResult(name, base) == <<PATH, name, urljoin(base, basename(name))>>

(* lines 106-115: copy, build the URL, return *)
Transmit(p) ==
    /\ pc[p] = "Transmitting"
    /\ LET full_output_name == join(target, output_name[p])
       IN  Copy2(p, full_output_name, "Done")
    /\ result' = [result EXCEPT ![p] =
                    IF pc'[p] = "Done"
                    THEN StoreResult(output_name[p], output_url)
                    ELSE NoResult]
    /\ UNCHANGED <<envVars, output, actual_file_size, output_name,
                   remote>>

(* --------------------------- FTPStorage.store --------------------------- *)
(* lines 151-155: store(output) is entered and ftplib imported; the except
   branch names StorageDependecyError, which is not defined: NameError *)
FtpCall(p, names, exts) ==
    /\ pc[p] = "Idle"
    /\ \E out \in Artifacts(p, names, exts) : output' = [output EXCEPT ![p] = out]
    /\ IF ftplib_present
       THEN /\ pc' = [pc EXCEPT ![p] = "FtpAllocating"]
            /\ UNCHANGED error
       ELSE /\ pc' = [pc EXCEPT ![p] = "Failed"]
            /\ error' = [error EXCEPT ![p] = "NameError"]
    /\ UNCHANGED <<envVars, f_bfree, files, actual_file_size, output_name,
                   result, remote>>

(* lines 158-163 *)
FtpAllocate(p) ==
    /\ pc[p] = "FtpAllocating"
    /\ Mkstemp(p, "FtpStaging")
    /\ UNCHANGED <<envVars, f_bfree, output, actual_file_size, result, remote>>

(* lines 165-167: the artifact is staged in the target directory *)
FtpStage(p) ==
    /\ pc[p] = "FtpStaging"
    /\ Copy2(p, join(target, output_name[p]), "FtpLogin")
    /\ UNCHANGED <<envVars, output, actual_file_size, output_name, result,
                   remote>>

LoginErrorIgnored == FALSE

(* lines 170-173: ftp.login raises when the server rejects the credentials *)
LoginRejected == ~ftp_login_ok

(* lines 169-173 *)
FtpLogin(p) ==
    /\ pc[p] = "FtpLogin"
    /\ IF LoginRejected
       THEN /\ pc' = [pc EXCEPT ![p] = "Failed"]
            /\ error' = [error EXCEPT ![p] = "StorageAuthenticationError"]
       ELSE /\ pc' = [pc EXCEPT ![p] = "FtpUploading"]
            /\ UNCHANGED error
    /\ UNCHANGED <<envVars, f_bfree, files, output, actual_file_size,
                   output_name, result, remote>>

(* lines 174-180: STOR under the artifact's original name, then return *)
FtpUpload(p) ==
    /\ pc[p] = "FtpUploading"
    /\ LET full_output_name == join(target, output_name[p])
       IN  remote' = (output[p].file :> files[full_output_name]) @@ remote
    /\ result' = [result EXCEPT ![p] =
                    <<FTP, output_name[p],
                      urljoin(ftp_host, basename(output_name[p]))>>]
    /\ pc' = [pc EXCEPT ![p] = "Done"]
    /\ UNCHANGED <<envVars, f_bfree, files, output, actual_file_size,
                   output_name, error>>

(* ----------------------------- specifications --------------------------- *)
InitCalls ==
    /\ files = <<>>
    /\ pc = [p \in Calls |-> "Idle"]
    /\ output = [p \in Calls |-> NoOutput]
    /\ actual_file_size = [p \in Calls |-> 0]
    /\ output_name = [p \in Calls |-> NoName]
    /\ result = [p \in Calls |-> NoResult]
    /\ error = [p \in Calls |-> "None"]
    /\ remote = <<>>

(* concurrent Local Disk stores into one target directory *)
Init ==
    /\ platform \in {"Windows", "Posix"}
    /\ f_frsize \in BlockSizes
    /\ f_bfree \in 0..MaxFree
    /\ st_blksize \in BlockSizes
    /\ writable \in BOOLEAN
    /\ output_url = DocUrl
    /\ ftp_login_ok = TRUE
    /\ ftplib_present = TRUE
    /\ InitCalls

Next ==
    \/ \E p \in Calls : Call(p, SameNames, {<<".", "t">>})
    \/ \E p \in Calls : Admit(p)
    \/ \E p \in Calls : Allocate(p)
    \/ \E p \in Calls : Transmit(p)

Spec == Init /\ [][Next]_vars


(* one Local Disk store, over every artifact name, declared extension and
   configured base URL *)
InitNaming ==
    /\ platform \in {"Windows", "Posix"}
    /\ f_frsize \in BlockSizes
    /\ f_bfree \in {0, MaxFree}
    /\ st_blksize \in BlockSizes
    /\ writable \in BOOLEAN
    /\ output_url \in BaseUrls
    /\ ftp_login_ok = TRUE
    /\ ftplib_present = TRUE
    /\ InitCalls

NextNaming ==
    \/ Call(1, AllNames, DeclExts)
    \/ Admit(1)
    \/ Allocate(1)
    \/ Transmit(1)

SpecNaming == InitNaming /\ [][NextNaming]_vars

(* concurrent FTP stores staged in one target directory *)
InitFTP ==
    /\ platform = "Posix"
    /\ f_frsize \in BlockSizes
    /\ f_bfree \in 0..MaxFree
    /\ st_blksize = 1
    /\ writable \in BOOLEAN
    /\ output_url = DocUrl
    /\ ftp_login_ok \in BOOLEAN
    /\ ftplib_present \in BOOLEAN
    /\ InitCalls

NextFTP ==
    \/ \E p \in Calls : FtpCall(p, SameNames, {<<".", "t">>})
    \/ \E p \in Calls : FtpAllocate(p)
    \/ \E p \in Calls : FtpStage(p)
    \/ \E p \in Calls : FtpLogin(p)
    \/ \E p \in Calls : FtpUpload(p)

SpecFTP == InitFTP /\ [][NextFTP]_vars


(* ------------------------------- claims --------------------------------- *)
(* n rounded up to a multiple of b: the least multiple of b that is >= n *)
RoundUp(n, b) ==
    CHOOSE m \in 0..(n + b) :
        /\ m % b = 0
        /\ m >= n
        /\ \A k \in 0..(n + b) : (k % b = 0 /\ k >= n) => m <= k

(* the block-rounded size an artifact requires, for either block size the
   rounding can refer to *)
Short(out) ==
    \/ FreeBytes < RoundUp(Len(out.data), f_frsize)
    \/ FreeBytes < RoundUp(Len(out.data), st_blksize)

(* C1: whenever the free bytes of the target volume are fewer than the
   block-rounded size of the artifact, the capacity check ends the call with
   NotEnoughStorage, and that step leaves the target directory as it was:
   no name is allocated and no file is created or written.  A call that
   failed so never has a stored name or a result. *)
C1_InsufficientCapacity ==
    /\ [][\A p \in Calls :
            (pc[p] = "Admitting" /\ pc'[p] # "Admitting" /\ Short(output[p]))
            => /\ pc'[p] = "Failed"
               /\ error'[p] = "NotEnoughStorage"
               /\ files' = files
               /\ f_bfree' = f_bfree]_vars
    /\ [](\A p \in Calls :
            error[p] = "NotEnoughStorage"
            => /\ pc[p] = "Failed"
               /\ output_name[p] = NoName
               /\ result[p] = NoResult)

(* a call was refused although the artifact's bytes alone would have
   fitted: only the rounding to blocks made it too large *)
C1_Witness ==
    \E p \in Calls :
        /\ pc[p] = "Failed"
        /\ error[p] = "NotEnoughStorage"
        /\ Len(output[p].data) <= FreeBytes
        /\ Short(output[p])
        /\ files = <<>>

(* C2: the required size store computes is the artifact's length rounded
   up to a multiple of the block size of the target directory's filesystem *)
C2_RequiredSize ==
    \A p \in Calls :
        pc[p] \in {"Allocating", "Transmitting", "Done"}
        => /\ actual_file_size[p] = RoundUp(Len(output[p].data), f_frsize)
           /\ actual_file_size[p] % f_frsize = 0
           /\ actual_file_size[p] >= Len(output[p].data)

(* C3: the stored names concurrent calls allocate are pairwise distinct, and
   the step that allocates one never takes a name that is already in the
   directory *)
C3_UniqueNames ==
    /\ [](\A p, q \in Calls :
            (p # q /\ output_name[p] # NoName /\ output_name[q] # NoName)
            => output_name[p] # output_name[q])
    /\ [][\A p \in Calls :
            (output_name[p] = NoName /\ output_name'[p] # NoName)
            => /\ output_name'[p] \notin DOMAIN files
               /\ output_name'[p] \in DOMAIN files']_vars

(* every call has allocated a name and all come from artifacts of the same
   original name and extension *)
C3_Witness ==
    /\ \A p \in Calls : output_name[p] # NoName
    /\ \A p, q \in Calls : output[p].file = output[q].file


(* the calls that have created a file in the target directory *)
Named == {p \in Calls : output_name[p] # NoName}

(* C4: when store has returned, the file its locator names is in the target
   directory, holds exactly the artifact's bytes, and is the one file this
   call added: the directory holds one file per call that allocated a name,
   and no other call's stored name is this locator. *)
C4_RoundTrip ==
    \A p \in Calls :
        pc[p] = "Done"
        => /\ result[p] # NoResult
           /\ result[p][1] = PATH
           /\ result[p][2] \in DOMAIN files
           /\ files[result[p][2]] = output[p].data
           /\ \A q \in Calls \ {p} : output_name[q] # result[p][2]
           /\ Cardinality(DOMAIN files) = Cardinality(Named)

(* every call has returned, with a non-empty artifact stored *)
C4_Witness ==
    /\ \A p \in Calls : pc[p] = "Done" /\ Len(output[p].data) > 0
    /\ Cardinality(DOMAIN files) = NumCalls

(* the error kinds of the storage contract the raised exceptions stand for *)
ErrorKind(e) ==
    CASE e = "NotEnoughStorage" -> "InsufficientCapacity"
      [] e = "IOError" -> "PlacementFailed"
      [] e = "StorageAuthenticationError" -> "AuthenticationFailed"
      [] OTHER -> "Unclassified"

(* C5: once the copy has been attempted, a stored file that does not hold
   all of the artifact's bytes belongs to a call that failed with the copy's
   error (kind PlacementFailed) and returned no result. *)
C5_PartialCopyFails ==
    \A p \in Calls :
        ( /\ output_name[p] # NoName
          /\ pc[p] # "Transmitting"
          /\ files[output_name[p]] # output[p].data )
        => /\ pc[p] = "Failed"
           /\ ErrorKind(error[p]) = "PlacementFailed"
           /\ result[p] = NoResult

(* a call left a file with some, not all, of the artifact's bytes *)
C5_Witness ==
    \E p \in Calls :
        /\ pc[p] = "Failed"
        /\ error[p] = "IOError"
        /\ Len(files[output_name[p]]) > 0
        /\ Len(files[output_name[p]]) < Len(output[p].data)


(* the last component of a path: what follows its last slash *)
Component(n) ==
    LET k == CHOOSE k \in 0..Len(n) :
                /\ \A i \in (k + 1)..Len(n) : n[i] # "/"
                /\ (k > 0 => n[k] = "/")
    IN  [i \in 1..(Len(n) - k) |-> n[k + i]]

(* the places of a file name where an extension can start: a dot with a
   character other than a dot somewhere before it *)
ExtDots(c) == {i \in 1..Len(c) : c[i] = "." /\ \E j \in 1..(i - 1) : c[j] # "."}

HasExtension(c) == ExtDots(c) # {}

LastExtDot(c) == CHOOSE i \in ExtDots(c) : \A j \in ExtDots(c) : j <= i

EndsWith(s, t) ==
    /\ Len(t) <= Len(s)
    /\ \A i \in 1..Len(t) : s[Len(s) - Len(t) + i] = t[i]

StartsWith(s, t) ==
    /\ Len(t) <= Len(s)
    /\ \A i \in 1..Len(t) : s[i] = t[i]

(* C6: the stored name ends in the original name's extension when it has
   one and otherwise in the declared format's extension, and the stored
   file's name starts with the original name stripped of its directory and
   of its extension. *)
C6_ExtensionPolicy ==
    \A p \in Calls :
        output_name[p] # NoName
        => LET c == Component(output[p].file)
               stored == Component(output_name[p])
           IN  IF HasExtension(c)
               THEN /\ EndsWith(stored, SubSeq(c, LastExtDot(c), Len(c)))
                    /\ StartsWith(stored, SubSeq(c, 1, LastExtDot(c) - 1))
               ELSE /\ EndsWith(stored, output[p].ext)
                    /\ StartsWith(stored, c)

(* an artifact in a directory, its name without extension (only a leading
   dot), stored under the declared extension *)
C6_Witness ==
    \E p \in Calls :
        /\ pc[p] = "Done"
        /\ output[p].file = <<"/", ".", "a">>
        /\ output[p].ext = <<".", "t">>
        /\ EndsWith(output_name[p], <<".", "t">>)

(* the base URL as a list of segments, without the empty segment a trailing
   slash leaves *)
Segments(base) ==
    IF base.path[Len(base.path)] = ""
    THEN SubSeq(base.path, 1, Len(base.path) - 1)
    ELSE base.path

(* C7: the returned url is the configured base URL followed by the stored
   file's base name as one more segment: every segment of the base URL is
   kept, whether or not the base URL ends in a slash. *)
C7_PublicUrl ==
    \A p \in Calls :
        pc[p] = "Done"
        => result[p][3] =
              [root |-> output_url.root,
               path |-> Segments(output_url) \o <<Component(output_name[p])>>]

(* C8: get_free_space returns the volume's free bytes on every platform, so
   the Windows branch and the other branch agree for one volume state. *)
C8_FreeSpaceInBytes ==
    (\E p \in Calls : pc[p] = "Admitting")
    => \A system \in {"Windows", "Posix"} : get_free_space(system) = FreeBytes

(* C9: when the server rejects the credentials, the login step ends the call
   with StorageAuthenticationError; no call returns a result or reaches the
   upload, and the server holds no file. *)
C9_AuthenticationFailed ==
    /\ [](~ftp_login_ok
          => /\ remote = <<>>
             /\ \A p \in Calls :
                   /\ pc[p] \notin {"FtpUploading", "Done"}
                   /\ result[p] = NoResult)
    /\ [][\A p \in Calls :
            (~ftp_login_ok /\ pc[p] = "FtpLogin" /\ pc'[p] # "FtpLogin")
            => /\ pc'[p] = "Failed"
               /\ error'[p] = "StorageAuthenticationError"
               /\ remote' = remote]_vars

(* every call was rejected at login, after staging its file *)
C9_Witness ==
    /\ ~ftp_login_ok
    /\ \A p \in Calls :
          /\ pc[p] = "Failed"
          /\ error[p] = "StorageAuthenticationError"
          /\ output_name[p] \in DOMAIN files


(* the phases of a Local Disk store are the values of pc *)
SuccessOrder ==
    { <<"Idle", "Admitting">>, <<"Admitting", "Allocating">>,
      <<"Allocating", "Transmitting">>, <<"Transmitting", "Done">> }

FailureFromAdmittingOrTransmitting ==
    { <<"Admitting", "Failed">>, <<"Transmitting", "Failed">> }

(* what holds of a call in each phase: nothing is allocated or written
   before the capacity check has passed, a call that is Done has returned a
   result and raised nothing, a call that Failed raised one of store's
   errors and returned nothing, and a call under way is never blocked (the
   capacity check and the copy have no guard; mkstemp finds a free name) *)
PhaseInvariant(p) ==
    /\ pc[p] \in {"Idle", "Admitting", "Allocating"}
       => output_name[p] = NoName /\ result[p] = NoResult /\ error[p] = "None"
    /\ error[p] = "NotEnoughStorage" => output_name[p] = NoName
    /\ pc[p] = "Transmitting"
       => /\ output_name[p] \in DOMAIN files
          /\ result[p] = NoResult
          /\ error[p] = "None"
    /\ pc[p] = "Done" => result[p] # NoResult /\ error[p] = "None"
    /\ pc[p] = "Failed"
       => /\ error[p] \in {"NotEnoughStorage", "OSError", "IOError"}
          /\ result[p] = NoResult
    /\ (pc[p] = "Allocating" /\ writable)
       => \E tok \in Tokens :
             CanCreate(TempPath(target, Prefix(output[p]), tok, Suffix(output[p])))

PhaseSteps(allowed) ==
    \A p \in Calls :
        pc'[p] # pc[p]
        => /\ <<pc[p], pc'[p]>> \in allowed
           /\ pc'[p] = "Allocating" => ~NotEnough(get_free_space(platform),
                                                  actual_file_size'[p])

(* C10 as stated: phases follow Idle, Admitting, Allocating, Transmitting,
   Done in this order, Failed is entered only from Admitting or
   Transmitting, Done and Failed are final and no phase is entered twice. *)
C10_PhaseOrder ==
    /\ [](\A p \in Calls : PhaseInvariant(p))
    /\ [][PhaseSteps(SuccessOrder \cup FailureFromAdmittingOrTransmitting)]_vars

(* C10 amended: as above, and Failed is also entered from Allocating, when
   mkstemp cannot create a file in the target directory. *)
C10_PhaseOrderAmended ==
    /\ [](\A p \in Calls : PhaseInvariant(p))
    /\ [][PhaseSteps(SuccessOrder \cup FailureFromAdmittingOrTransmitting
                     \cup { <<"Allocating", "Failed">> })]_vars

(* one call is Done, another Failed in the copy, after both passed the
   capacity check *)
C10_Witness ==
    \E p, q \in Calls :
        /\ pc[p] = "Done"
        /\ pc[q] = "Failed"
        /\ error[q] = "IOError"

====
